---- MODULE Spec2Model ----
(***************************************************************************)
(* Job orchestration of the customer-segmentation backend.                 *)
(*                                                                         *)
(* backend/app.py        run_job, run_spark_job_async, update_job_status,  *)
(*                       job_status, cleanup                               *)
(* backend/spark_job.py  log_progress, run_segmentation_pipeline and the   *)
(*                       stage functions it calls                          *)
(*                                                                         *)
(* Every status write is open(path, 'w') followed by json.dump and the     *)
(* close of the file: the open truncates the file, the dump/close makes    *)
(* the record visible.  The two are separate steps of the model, so a      *)
(* request handler can run between them.  The status directory and the     *)
(* results directory are assumed writable (open and dump do not raise),    *)
(* and less than an hour passes between the open and the dump of a status  *)
(* file, which are consecutive statements.                                 *)
(***************************************************************************)
EXTENDS Integers, Sequences, FiniteSets

\* Number of submissions accepted by run_job in a run of the model.
MaxJobs == 2

\* Number of submissions accepted while a client polls job_status.
PolledJobs == 1

Jobs == 1..MaxJobs

\* The three result artifacts, all written under fixed names in RESULTS_DIR.
PROFILES == "segment_profiles.json"
CHART == "chart_data.json"
SEGMENTS == "segments.csv"
Artifacts == {PROFILES, CHART, SEGMENTS}

VARIABLES
    pc,             \* pc[j]: position of job j's request handler / thread
    nextJob,        \* number of job ids handed out so far (uuid4 is fresh)
    statusFile,     \* statusFile[j]: the file STATUS_DIR/<job j>.json
    stale,          \* stale[j]: the file's mtime is more than 3600 s ago
    jobs,           \* the in-memory dictionary `jobs` of app.py
    writes,         \* writes[j]: the records written for job j, in order
    exc,            \* exc[j]: the exception caught by the pipeline, or "none"
    activeSession,  \* the live Spark session of the process, 0 when none
    sessionSeq,     \* number of Spark sessions created so far
    spark,          \* spark[j]: the session job j got from getOrCreate
    results,        \* results[a]: the file RESULTS_DIR/a
    orphan,         \* orphan[j]: the result file j has open was unlinked
    produced,       \* produced[j]: the artifacts job j has written
    resp,           \* the last answer of job_status or of run_job
    df              \* one run of the pipeline on a table, stage by stage

vars == <<pc, nextJob, statusFile, stale, jobs, writes, exc, activeSession,
          sessionSeq, spark, results, orphan, produced, resp, df>>

----------------------------------------------------------------------------
(* Files.  `data` is the sequence of JSON documents in the file: empty     *)
(* right after open(..., 'w'), one document after dump and close.          *)

Absent == [exists |-> FALSE, data |-> <<>>]
Truncated == [exists |-> TRUE, data |-> <<>>]
Written(doc) == [exists |-> TRUE, data |-> <<doc>>]

\* st_size == 0
IsEmptyFile(f) == f.exists /\ Len(f.data) = 0

\* json.load: the document of a complete file; fails on an empty file.
JsonLoad(f) ==
    IF Len(f.data) = 1
    THEN [ok |-> TRUE, doc |-> f.data[1]]
    ELSE [ok |-> FALSE, doc |-> <<>>]

\* The status_data dictionary (the timestamp is left out).
StatusData(job_id, stage, progress, message) ==
    [job_id |-> job_id, stage |-> stage, progress |-> progress,
     message |-> message]

\* no entry of the `jobs` dictionary
NoEntry == [job_id |-> 0]

\* str(e) of the exceptions a stage raises.
ExcText(e) ==
    CASE e = "AnalysisException" -> "Path does not exist"
      [] e = "ValueError" -> "Missing required columns"
      [] e = "IllegalArgumentException" -> "KMeans parameter k is invalid"
      [] e = "SparkException" -> "Job aborted due to stage failure"
      [] e = "RuntimeError" -> "Java gateway process exited"
      [] e = "AttributeError" -> "'KMeansModel' object has no attribute '_jdf'"
      [] e = "SessionStopped" -> "Cannot call methods on a stopped SparkContext"
      [] OTHER -> ""

\* f'Error: {str(e)}'
ErrorMessage(e) == <<"Error: ", ExcText(e)>>

----------------------------------------------------------------------------
InitJobs ==
    /\ pc = [j \in Jobs |-> <<"idle", "">>]
    /\ nextJob = 0
    /\ statusFile = [j \in Jobs |-> Absent]
    /\ stale = [j \in Jobs |-> FALSE]
    /\ jobs = [j \in Jobs |-> NoEntry]
    /\ writes = [j \in Jobs |-> <<>>]
    /\ exc = [j \in Jobs |-> "none"]
    /\ activeSession = 0
    /\ sessionSeq = 0
    /\ spark = [j \in Jobs |-> 0]
    /\ results = [a \in Artifacts |-> Absent]
    /\ orphan = [j \in Jobs |-> FALSE]
    /\ produced = [j \in Jobs |-> {}]
    /\ resp = [handler |-> "none", code |-> 0, job_id |-> 0, body |-> NoEntry]

\* No table is followed through the pipeline.
NoFrame == [at |-> "none"]

Init == InitJobs /\ df = NoFrame

\* pc[j] is <<function, step>>.
At(j, fn, step) == pc[j] = <<fn, step>>
Goto(j, fn, step) == pc' = [pc EXCEPT ![j] = <<fn, step>>]

\* The variables of the Spark session and of the result directory.
sparkVars == <<activeSession, sessionSeq, spark>>
resultVars == <<results, orphan, produced>>

----------------------------------------------------------------------------
(* Status writes.                                                          *)

\* A status file with one fixed name instead of one per job id.
OpenStatusFile_shared(j) ==
    /\ statusFile' = [statusFile EXCEPT ![1] = Truncated]
    /\ stale' = [stale EXCEPT ![j] = FALSE]

\* open(status_file, 'w'): creates or truncates the file, mtime is now.
OpenStatusFile(j) ==
    /\ statusFile' = [statusFile EXCEPT ![j] = Truncated]
    /\ stale' = [stale EXCEPT ![j] = FALSE]

\* json.dump and close: the document is in the file.
DumpStatusFile(j, doc) ==
    /\ statusFile' = [statusFile EXCEPT ![j] = Written(doc)]
    /\ stale' = [stale EXCEPT ![j] = FALSE]
    /\ writes' = [writes EXCEPT ![j] = Append(@, doc)]

\* log_progress up to the open of the file.
log_progress_open(j) ==
    /\ OpenStatusFile(j)
    /\ UNCHANGED <<jobs, writes>>

\* log_progress from json.dump on.
log_progress(j, stage, progress, message) ==
    /\ DumpStatusFile(j, StatusData(j, stage, progress, message))
    /\ UNCHANGED jobs

\* update_job_status up to the open of the file: the in-memory entry is set.
update_job_status_open(j, stage, progress, message) ==
    /\ jobs' = [jobs EXCEPT ![j] = StatusData(j, stage, progress, message)]
    /\ OpenStatusFile(j)
    /\ UNCHANGED writes

\* update_job_status from json.dump on.
update_job_status(j, stage, progress, message) ==
    /\ DumpStatusFile(j, StatusData(j, stage, progress, message))
    /\ UNCHANGED jobs

----------------------------------------------------------------------------
(* POST /run-job                                                           *)

\* run_job, for a request that names an uploaded file, up to the open of
\* the status file inside update_job_status: a fresh job id is generated
\* and its `queued` entry is put in `jobs`.  At most `limit` requests are
\* accepted.
run_job_open(limit) ==
    /\ nextJob < limit
    /\ nextJob' = nextJob + 1
    /\ update_job_status_open(nextJob + 1, "queued", 0,
                              <<"Job queued for processing">>)
    /\ Goto(nextJob + 1, "run_job", "queued")
    /\ UNCHANGED <<exc, sparkVars, resultVars, resp, df>>

\* run_job starting the thread and returning without the `queued` record
\* having been dumped.
run_job_unwritten(j) ==
    /\ At(j, "run_job", "queued")
    /\ Goto(j, "run_spark_job_async", "enter")
    /\ UNCHANGED <<nextJob, statusFile, stale, jobs, writes, exc, sparkVars,
                   resultVars, resp, df>>

\* run_job from the dump of the `queued` record on: the thread is started
\* and the job id is returned.
run_job(j) ==
    /\ At(j, "run_job", "queued")
    /\ update_job_status(j, "queued", 0, <<"Job queued for processing">>)
    /\ Goto(j, "run_spark_job_async", "enter")
    /\ UNCHANGED <<nextJob, exc, sparkVars, resultVars, resp, df>>

\* The requests run_job rejects: a body without `filename`, and a filename
\* that is not in the upload directory.
Rejected == {"filename is required", "File not found"}

\* run_job putting the entry of the job in `jobs` before it looks for the
\* file.
run_job_rejected_registered(request) ==
    /\ resp' = [handler |-> "run_job",
                code |-> IF request = "filename is required" THEN 400
                         ELSE 404,
                job_id |-> 0, body |-> NoEntry]
    /\ jobs' = IF request = "File not found" /\ nextJob < MaxJobs
               THEN [jobs EXCEPT ![nextJob + 1] =
                        StatusData(nextJob + 1, "queued", 0,
                                   <<"Job queued for processing">>)]
               ELSE jobs
    /\ UNCHANGED <<pc, nextJob, statusFile, stale, writes, exc, sparkVars,
                   resultVars, df>>

\* run_job, lines 159-167: the request is answered with 400 or 404 before
\* a job id is generated.
run_job_rejected(request) ==
    /\ resp' = [handler |-> "run_job",
                code |-> IF request = "filename is required" THEN 400
                         ELSE 404,
                job_id |-> 0, body |-> NoEntry]
    /\ UNCHANGED <<pc, nextJob, statusFile, stale, jobs, writes, exc,
                   sparkVars, resultVars, df>>

----------------------------------------------------------------------------
(* The Spark session.  A stage's Spark operations fail when the session    *)
(* the job holds has been stopped, and may fail on the input.              *)

\* SparkSession.builder...getOrCreate(): the live session of the process,
\* or a new one when there is none.
getOrCreate(j) ==
    IF activeSession # 0
    THEN /\ spark' = [spark EXCEPT ![j] = activeSession]
         /\ UNCHANGED <<activeSession, sessionSeq>>
    ELSE /\ sessionSeq' = sessionSeq + 1
         /\ activeSession' = sessionSeq + 1
         /\ spark' = [spark EXCEPT ![j] = sessionSeq + 1]

\* spark.stop(): stops the session the job holds, also for every other job
\* that got the same session from getOrCreate.
stop(j) ==
    /\ activeSession' = IF activeSession = spark[j] THEN 0 ELSE activeSession
    /\ UNCHANGED <<sessionSeq, spark>>

SessionAlive(j) == spark[j] # 0 /\ spark[j] = activeSession

\* The exceptions the Spark operations of a stage can raise: those the
\* input can cause while the session is alive, the stopped session's
\* otherwise.
Raisable(j, onInput) == IF SessionAlive(j) THEN onInput ELSE {"SessionStopped"}

\* An exception raised inside the try block: control passes to the except
\* clause of run_segmentation_pipeline.
Raise(j, e) ==
    /\ exc' = [exc EXCEPT ![j] = e]
    /\ Goto(j, "except", "enter")

\* A stage function that writes one record, runs its Spark operations and
\* writes a second record.  The operations either succeed, and the second
\* log_progress opens the status file, or raise.
TwoRecordStage(j, fn, stage, p1, m1, onInput, p2, m2, next) ==
    \/ /\ At(j, fn, "enter")
       /\ log_progress_open(j)
       /\ Goto(j, fn, "first")
       /\ UNCHANGED <<nextJob, exc, sparkVars, resultVars, resp, df>>
    \/ /\ At(j, fn, "first")
       /\ log_progress(j, stage, p1, m1)
       /\ Goto(j, fn, "body")
       /\ UNCHANGED <<nextJob, exc, sparkVars, resultVars, resp, df>>
    \/ /\ At(j, fn, "body")
       /\ SessionAlive(j)
       /\ log_progress_open(j)
       /\ Goto(j, fn, "second")
       /\ UNCHANGED <<nextJob, exc, sparkVars, resultVars, resp, df>>
    \/ /\ At(j, fn, "body")
       /\ \E e \in Raisable(j, onInput) : Raise(j, e)
       /\ UNCHANGED <<nextJob, statusFile, stale, jobs, writes, sparkVars,
                      resultVars, resp, df>>
    \/ /\ At(j, fn, "second")
       /\ log_progress(j, stage, p2, m2)
       /\ Goto(j, next, "enter")
       /\ UNCHANGED <<nextJob, exc, sparkVars, resultVars, resp, df>>

----------------------------------------------------------------------------
(* run_spark_job_async and run_segmentation_pipeline                       *)

\* run_spark_job_async, the `initializing` record (lines 75-76).
run_spark_job_async_start(j) ==
    \/ /\ At(j, "run_spark_job_async", "enter")
       /\ update_job_status_open(j, "initializing", 5, <<"Starting job...">>)
       /\ Goto(j, "run_spark_job_async", "first")
       /\ UNCHANGED <<nextJob, exc, sparkVars, resultVars, resp, df>>
    \/ /\ At(j, "run_spark_job_async", "first")
       /\ update_job_status(j, "initializing", 5, <<"Starting job...">>)
       /\ Goto(j, "run_segmentation_pipeline", "enter")
       /\ UNCHANGED <<nextJob, exc, sparkVars, resultVars, resp, df>>

\* run_segmentation_pipeline, lines 434-440: the Spark session.  Starting
\* a session raises when the Java gateway cannot be launched.
run_segmentation_pipeline_session(j) ==
    \/ /\ At(j, "run_segmentation_pipeline", "enter")
       /\ getOrCreate(j)
       /\ Goto(j, "load_data", "enter")
       /\ UNCHANGED <<nextJob, statusFile, stale, jobs, writes, exc,
                      resultVars, resp, df>>
    \/ /\ At(j, "run_segmentation_pipeline", "enter")
       /\ activeSession = 0
       /\ Raise(j, "RuntimeError")
       /\ UNCHANGED <<nextJob, statusFile, stale, jobs, writes, sparkVars,
                      resultVars, resp, df>>

\* run_segmentation_pipeline, Stage 1 (lines 446-457): spark.read.csv and
\* the count of the rows.
load_data(j) ==
    TwoRecordStage(j, "load_data", "loading",
                   10, <<"Loading CSV file">>,
                   {"AnalysisException"},
                   20, <<"Loaded ", "row_count", " records">>,
                   "preprocess_data")

\* preprocess_data reporting 20 instead of 30 after its operations.
preprocess_data_regress(j) ==
    TwoRecordStage(j, "preprocess_data", "preprocessing",
                   25, <<"Handling missing values and outliers">>,
                   {"ValueError"},
                   20, <<"Removing outliers">>,
                   "feature_engineering")

\* preprocess_data: validate_required_columns raises ValueError.
preprocess_data(j) ==
    TwoRecordStage(j, "preprocess_data", "preprocessing",
                   25, <<"Handling missing values and outliers">>,
                   {"ValueError"},
                   30, <<"Removing outliers">>,
                   "feature_engineering")

\* feature_engineering reporting its records under the previous stage.
feature_engineering_mislabeled(j) ==
    TwoRecordStage(j, "feature_engineering", "preprocessing",
                   40, <<"Starting feature engineering">>,
                   {},
                   50, <<"Features engineered">>,
                   "create_feature_vector")

\* feature_engineering: casts and divisions give null, they do not raise.
feature_engineering(j) ==
    TwoRecordStage(j, "feature_engineering", "feature_engineering",
                   40, <<"Starting feature engineering">>,
                   {},
                   50, <<"Features engineered">>,
                   "create_feature_vector")

\* create_feature_vector: the assembler raises on a null value when
\* show() evaluates the vector column.
create_feature_vector(j) ==
    TwoRecordStage(j, "create_feature_vector", "vectorization",
                   55, <<"Assembling features into vectors">>,
                   {"SparkException"},
                   60, <<"Feature vector created">>,
                   "scale_features")

\* scale_features: the fit evaluates every row (a null makes the
\* assembler raise) and fails on a table without rows.
scale_features(j) ==
    TwoRecordStage(j, "scale_features", "scaling",
                   65, <<"Scaling features">>,
                   {"IllegalArgumentException", "SparkException"},
                   70, <<"Features scaled">>,
                   "perform_clustering")

\* perform_clustering: KMeans rejects an invalid k, fit fails on the data,
\* and evaluate, handed the model instead of the table, may raise.
perform_clustering(j) ==
    TwoRecordStage(j, "perform_clustering", "clustering",
                   75, <<"Running KMeans with k=", "k">>,
                   {"IllegalArgumentException", "SparkException",
                    "AttributeError"},
                   85, <<"KMeans complete. Silhouette Score: ", "score">>,
                   "generate_segment_profiles")

\* The document a job writes into a result artifact.
ArtifactOf(j) == [producer |-> j]

\* open(output_file, 'w') of a result file.
OpenResultFile(j, a) ==
    /\ results' = [results EXCEPT ![a] = Truncated]
    /\ orphan' = [orphan EXCEPT ![j] = FALSE]
    /\ UNCHANGED produced

\* json.dump and close of a result file.  The document of a file that
\* cleanup unlinked after the open is lost with the unlinked file.
DumpResultFile(j, a) ==
    /\ results' = [results EXCEPT
                     ![a] = IF orphan[j] THEN @ ELSE Written(ArtifactOf(j))]
    /\ orphan' = [orphan EXCEPT ![j] = FALSE]
    /\ produced' = [produced EXCEPT ![j] = @ \cup {a}]

\* A stage function that writes one record, runs its Spark operations and
\* writes a JSON result file.
JsonArtifactStage(j, fn, stage, p, m, onInput, a, next) ==
    \/ /\ At(j, fn, "enter")
       /\ log_progress_open(j)
       /\ Goto(j, fn, "first")
       /\ UNCHANGED <<nextJob, exc, sparkVars, resultVars, resp, df>>
    \/ /\ At(j, fn, "first")
       /\ log_progress(j, stage, p, m)
       /\ Goto(j, fn, "body")
       /\ UNCHANGED <<nextJob, exc, sparkVars, resultVars, resp, df>>
    \/ /\ At(j, fn, "body")
       /\ SessionAlive(j)
       /\ OpenResultFile(j, a)
       /\ Goto(j, fn, "dump")
       /\ UNCHANGED <<nextJob, statusFile, stale, jobs, writes, exc,
                      sparkVars, resp, df>>
    \/ /\ At(j, fn, "body")
       /\ \E e \in Raisable(j, onInput) : Raise(j, e)
       /\ UNCHANGED <<nextJob, statusFile, stale, jobs, writes, sparkVars,
                      resultVars, resp, df>>
    \/ /\ At(j, fn, "dump")
       /\ DumpResultFile(j, a)
       /\ Goto(j, next, "enter")
       /\ UNCHANGED <<nextJob, statusFile, stale, jobs, writes, exc,
                      sparkVars, resp, df>>

\* generate_segment_profiles: float() of a null aggregate raises TypeError;
\* the aggregates are of non-null columns here, so only Spark raises.
generate_segment_profiles(j) ==
    JsonArtifactStage(j, "generate_segment_profiles", "profiling",
                      90, <<"Generating segment profiles">>,
                      {"SparkException"}, PROFILES,
                      "generate_chart_data")

generate_chart_data(j) ==
    JsonArtifactStage(j, "generate_chart_data", "visualization",
                      95, <<"Generating visualization data">>,
                      {"SparkException"}, CHART,
                      "save_segmented_customers")

\* save_segmented_customers: write.mode('overwrite').csv removes the
\* existing output and then commits the new one.
save_segmented_customers(j) ==
    \/ /\ At(j, "save_segmented_customers", "enter")
       /\ log_progress_open(j)
       /\ Goto(j, "save_segmented_customers", "first")
       /\ UNCHANGED <<nextJob, exc, sparkVars, resultVars, resp, df>>
    \/ /\ At(j, "save_segmented_customers", "first")
       /\ log_progress(j, "saving", 98, <<"Saving segmented customers">>)
       /\ Goto(j, "save_segmented_customers", "body")
       /\ UNCHANGED <<nextJob, exc, sparkVars, resultVars, resp, df>>
    \/ /\ At(j, "save_segmented_customers", "body")
       /\ SessionAlive(j)
       /\ results' = [results EXCEPT ![SEGMENTS] = Absent]
       /\ Goto(j, "save_segmented_customers", "commit")
       /\ UNCHANGED <<nextJob, statusFile, stale, jobs, writes, exc,
                      sparkVars, orphan, produced, resp, df>>
    \/ /\ At(j, "save_segmented_customers", "body")
       /\ \E e \in Raisable(j, {"AnalysisException"}) : Raise(j, e)
       /\ UNCHANGED <<nextJob, statusFile, stale, jobs, writes, sparkVars,
                      resultVars, resp, df>>
    \/ /\ At(j, "save_segmented_customers", "commit")
       /\ SessionAlive(j)
       /\ results' = [results EXCEPT ![SEGMENTS] = Written(ArtifactOf(j))]
       /\ produced' = [produced EXCEPT ![j] = @ \cup {SEGMENTS}]
       /\ Goto(j, "completed", "enter")
       /\ UNCHANGED <<nextJob, statusFile, stale, jobs, writes, exc,
                      sparkVars, orphan, resp, df>>
    \/ /\ At(j, "save_segmented_customers", "commit")
       /\ \E e \in Raisable(j, {"SparkException"}) : Raise(j, e)
       /\ UNCHANGED <<nextJob, statusFile, stale, jobs, writes, sparkVars,
                      resultVars, resp, df>>

\* run_segmentation_pipeline, lines 493-509: the `completed` record,
\* spark.stop() and the return of the result dictionary.
run_segmentation_pipeline_completed(j) ==
    \/ /\ At(j, "completed", "enter")
       /\ log_progress_open(j)
       /\ Goto(j, "completed", "first")
       /\ UNCHANGED <<nextJob, exc, sparkVars, resultVars, resp, df>>
    \/ /\ At(j, "completed", "first")
       /\ log_progress(j, "completed", 100,
                       <<"Segmentation completed successfully">>)
       /\ Goto(j, "completed", "stop")
       /\ UNCHANGED <<nextJob, exc, sparkVars, resultVars, resp, df>>
    \/ /\ At(j, "completed", "stop")
       /\ stop(j)
       /\ Goto(j, "run_spark_job_async", "returned")
       /\ UNCHANGED <<nextJob, statusFile, stale, jobs, writes, exc,
                      resultVars, resp, df>>

\* An except clause that writes a fixed message instead of str(e).
run_segmentation_pipeline_except_generic(j) ==
    \/ /\ At(j, "except", "enter")
       /\ log_progress_open(j)
       /\ Goto(j, "except", "first")
       /\ UNCHANGED <<nextJob, exc, sparkVars, resultVars, resp, df>>
    \/ /\ At(j, "except", "first")
       /\ log_progress(j, "error", 0, <<"Error: ", "Pipeline failed">>)
       /\ Goto(j, "run_spark_job_async", "returned")
       /\ UNCHANGED <<nextJob, exc, sparkVars, resultVars, resp, df>>

\* An except clause missing: the exception ends the thread and no record
\* is written.
run_segmentation_pipeline_except_missing(j) ==
    /\ At(j, "except", "enter")
    /\ Goto(j, "done", "")
    /\ UNCHANGED <<nextJob, statusFile, stale, jobs, writes, exc, sparkVars,
                   resultVars, resp, df>>

\* run_segmentation_pipeline, lines 511-521: the except clause writes the
\* `error` record and returns a dictionary; the exception is not re-raised.
run_segmentation_pipeline_except(j) ==
    \/ /\ At(j, "except", "enter")
       /\ log_progress_open(j)
       /\ Goto(j, "except", "first")
       /\ UNCHANGED <<nextJob, exc, sparkVars, resultVars, resp, df>>
    \/ /\ At(j, "except", "first")
       /\ log_progress(j, "error", 0, ErrorMessage(exc[j]))
       /\ Goto(j, "run_spark_job_async", "returned")
       /\ UNCHANGED <<nextJob, exc, sparkVars, resultVars, resp, df>>

\* run_spark_job_async, lines 86-87: whatever run_segmentation_pipeline
\* returned, the job is marked completed.  (The except clause of lines
\* 89-91 runs only when the pipeline raises, which its own except clause
\* prevents.)
run_spark_job_async_completed(j) ==
    \/ /\ At(j, "run_spark_job_async", "returned")
       /\ update_job_status_open(j, "completed", 100,
                                 <<"Job completed successfully">>)
       /\ Goto(j, "run_spark_job_async", "last")
       /\ UNCHANGED <<nextJob, exc, sparkVars, resultVars, resp, df>>
    \/ /\ At(j, "run_spark_job_async", "last")
       /\ update_job_status(j, "completed", 100,
                            <<"Job completed successfully">>)
       /\ Goto(j, "done", "")
       /\ UNCHANGED <<nextJob, exc, sparkVars, resultVars, resp, df>>

----------------------------------------------------------------------------
(* Request handlers that run beside the jobs.                              *)

\* GET /job-status/<job_id>, for a job id that run_job has returned or
\* one that names no job.
job_status(j) ==
    /\ ~At(j, "run_job", "queued")
    /\ resp' =
         IF ~statusFile[j].exists
         THEN [handler |-> "job_status", code |-> 404, job_id |-> j,
               body |-> NoEntry]
         ELSE IF JsonLoad(statusFile[j]).ok
         THEN [handler |-> "job_status", code |-> 200, job_id |-> j,
               body |-> JsonLoad(statusFile[j]).doc]
         ELSE [handler |-> "job_status", code |-> 500, job_id |-> j,
               body |-> NoEntry]
    /\ UNCHANGED <<pc, nextJob, statusFile, stale, jobs, writes, exc,
                   sparkVars, resultVars, df>>

\* The files of RESULTS_DIR that is_file() accepts: segments.csv is the
\* directory Spark writes.
IsRegularFile(a) == a # SEGMENTS

\* The jobs that hold result file a open for writing.
Writing(j, a) ==
    \/ a = PROFILES /\ At(j, "generate_segment_profiles", "dump")
    \/ a = CHART /\ At(j, "generate_chart_data", "dump")

\* POST /cleanup: unlinks the result files of size 0 and the status files
\* older than one hour.
cleanup ==
    /\ results' = [a \in Artifacts |->
                     IF IsRegularFile(a) /\ IsEmptyFile(results[a])
                     THEN Absent ELSE results[a]]
    /\ orphan' = [j \in Jobs |->
                    \/ orphan[j]
                    \/ \E a \in Artifacts :
                          /\ Writing(j, a)
                          /\ IsRegularFile(a) /\ IsEmptyFile(results[a])]
    /\ statusFile' = [j \in Jobs |->
                        IF statusFile[j].exists /\ stale[j]
                        THEN Absent ELSE statusFile[j]]
    /\ stale' = [j \in Jobs |-> FALSE]
    /\ UNCHANGED <<pc, nextJob, jobs, writes, exc, sparkVars, produced, resp, df>>

\* A status file is held open between the open and the dump of a write.
StatusFileOpen(j) == pc[j][2] \in {"queued", "first", "second", "last"}

\* More than 3600 seconds pass without a write: every status file that
\* exists is now older than one hour.
HourPasses ==
    /\ \A j \in Jobs : ~StatusFileOpen(j)
    /\ stale' = [j \in Jobs |-> statusFile[j].exists]
    /\ stale' # stale
    /\ UNCHANGED <<pc, nextJob, statusFile, jobs, writes, exc, sparkVars,
                   resultVars, resp, df>>

----------------------------------------------------------------------------
Thread(j) ==
    \/ run_spark_job_async_start(j)
    \/ run_segmentation_pipeline_session(j)
    \/ load_data(j)
    \/ preprocess_data(j)
    \/ feature_engineering(j)
    \/ create_feature_vector(j)
    \/ scale_features(j)
    \/ perform_clustering(j)
    \/ generate_segment_profiles(j)
    \/ generate_chart_data(j)
    \/ save_segmented_customers(j)
    \/ run_segmentation_pipeline_completed(j)
    \/ run_segmentation_pipeline_except(j)
    \/ run_spark_job_async_completed(j)

\* The jobs, the housekeeping request and the passing of time.
Next ==
    \/ run_job_open(MaxJobs)
    \/ \E j \in Jobs : run_job(j)
    \/ \E j \in Jobs : Thread(j)
    \/ cleanup
    \/ HourPasses

Spec == Init /\ [][Next]_vars

\* The same with a client that polls job_status.
PolledNext ==
    \/ run_job_open(PolledJobs)
    \/ \E request \in Rejected : run_job_rejected(request)
    \/ \E j \in Jobs : run_job(j)
    \/ \E j \in Jobs : Thread(j)
    \/ \E j \in Jobs : job_status(j)
    \/ cleanup
    \/ HourPasses

PolledSpec == Init /\ [][PolledNext]_vars

\* Two jobs with a client that polls job_status, without housekeeping.
ClientNext ==
    \/ run_job_open(MaxJobs)
    \/ \E j \in Jobs : run_job(j)
    \/ \E j \in Jobs : Thread(j)
    \/ \E j \in Jobs : job_status(j)

ClientSpec == Init /\ [][ClientNext]_vars

\* Every started thread and every request handler keeps running.
FairSpec ==
    /\ Spec
    /\ \A j \in Jobs : WF_vars(run_job(j)) /\ WF_vars(Thread(j))

----------------------------------------------------------------------------
(* The data of one pipeline run (spark_job.py).  A table has a header of   *)
(* raw column names and rows of cells.  A cell of the CSV file is empty    *)
(* (null), text that is no number, or a whole number.  Numbers are kept in *)
(* halves, v = 2 * value, so that the median of an even number of whole    *)
(* values is exact.  Spark runs with its default, non-ANSI, SQL semantics: *)
(* a failed cast and a division by zero give null.                         *)

Null == [t |-> "null", v |-> 0]
Text == [t |-> "str", v |-> 0]
Num(x) == [t |-> "num", v |-> 2 * x]
IsNull(c) == c.t = "null"
IsNum(c) == c.t = "num"

\* Division that rounds towards zero, as a cast to an integer type does.
TruncDiv(a, b) == IF a >= 0 THEN a \div b ELSE -((-a) \div b)

required == <<"age", "spend", "recency", "frequency">>
numeric_cols == {"age", "spend", "recency", "frequency"}

\* A raw column name: its text, and whether blanks surround it.
Column(text, padded) == [text |-> text, padded |-> padded]

\* str.lower on the column names that occur.
lower(text) ==
    CASE text \in {"Age", "AGE", "age"} -> "age"
      [] text \in {"Spend", "SPEND", "spend"} -> "spend"
      [] text \in {"Recency", "RECENCY", "recency"} -> "recency"
      [] text \in {"Frequency", "FREQUENCY", "frequency"} -> "frequency"
      [] text \in {"CustomerID", "customerid"} -> "customerid"
      [] OTHER -> text

\* str.strip
strip(column) == Column(column.text, FALSE)

\* get_column_names: col.strip().lower() of every column.
get_column_names(columns) ==
    {Column(lower(strip(c).text), strip(c).padded) : c \in columns}

\* normalize_dataframe: every column renamed to its normalized name.
normalize_dataframe(columns) == get_column_names(columns)

\* validate_required_columns: the required columns that are not in the
\* normalized header, in the order of `required`; it raises ValueError
\* when the list is not empty.
validate_required_columns(columns) ==
    SelectSeq(required,
              LAMBDA r : Column(r, FALSE) \notin get_column_names(columns))

\* f"Missing required columns: {missing}"
MissingText(missing) == <<"Missing required columns: ">> \o missing

\* The cells of one column, row by row.
ColumnCells(rows, c) == [i \in 1..Len(rows) |-> rows[i][c]]

\* inferSchema: a column with a cell that is no number, or with no
\* value at all, is a string column; whole numbers give an integer column.
ColumnType(cells) ==
    IF \/ \E i \in 1..Len(cells) : cells[i].t = "str"
       \/ \A i \in 1..Len(cells) : IsNull(cells[i])
    THEN "string"
    ELSE IF \A i \in 1..Len(cells) : IsNum(cells[i]) => cells[i].v % 2 = 0
    THEN "int"
    ELSE "double"

\* The k-th smallest of the numbers of a column.
KthSmallest(cells, k) ==
    LET nums == {i \in 1..Len(cells) : IsNum(cells[i])}
    IN  CHOOSE x \in {cells[i].v : i \in nums} :
            /\ Cardinality({i \in nums : cells[i].v < x}) < k
            /\ Cardinality({i \in nums : cells[i].v <= x}) >= k

\* agg({col: 'median'}): the exact median of the values that are numbers
\* (text that is no number casts to null and is skipped), None when
\* there is none.
Median(cells) ==
    LET n == Cardinality({i \in 1..Len(cells) : IsNum(cells[i])})
    IN  IF n = 0 THEN [none |-> TRUE, v |-> 0]
        ELSE IF n % 2 = 1
        THEN [none |-> FALSE, v |-> KthSmallest(cells, (n + 1) \div 2)]
        ELSE [none |-> FALSE,
              v |-> (KthSmallest(cells, n \div 2)
                     + KthSmallest(cells, n \div 2 + 1)) \div 2]

\* Lines 94-97: the median, 0 when it is None; fillna casts the value to
\* the type of the column, which truncates it for an integer column.
FillValue(cells) ==
    LET m == Median(cells)
        median_value == IF m.none THEN 0 ELSE m.v
    IN  IF ColumnType(cells) = "int"
        THEN 2 * TruncDiv(median_value, 2)
        ELSE median_value

\* fillna({col_name: median_value}) for each of the four columns.
fillna(rows) ==
    [i \in 1..Len(rows) |->
        [c \in numeric_cols |->
            IF IsNull(rows[i][c])
            THEN [t |-> "num", v |-> FillValue(ColumnCells(rows, c))]
            ELSE rows[i][c]]]

\* dropna(subset=numeric_cols): the rows without a null in the columns.
dropna(rows) ==
    SelectSeq(rows, LAMBDA row : \A c \in numeric_cols : ~IsNull(row[c]))

\* col(col_name).cast('double'): text that is no number becomes null.
cast_double(rows) ==
    [i \in 1..Len(rows) |->
        [c \in numeric_cols |->
            IF rows[i][c].t = "str" THEN Null ELSE rows[i][c]]]

\* preprocess_data dropping the rows with a null before it fills them.
preprocess_rows_drop_first(rows) == cast_double(fillna(dropna(rows)))

\* The operations of preprocess_data after the validation (lines 90-105),
\* in the order of the code: fill, drop, cast.
preprocess_rows(rows) == cast_double(dropna(fillna(rows)))

----------------------------------------------------------------------------
(* One job followed through run_spark_job_async and                        *)
(* run_segmentation_pipeline with its table: `df` holds the position of    *)
(* the run, the table, the records written to the status file (log) and    *)
(* the artifacts written.  Each stage function is one step.                *)

\* show(5) evaluates the first 6 rows of the table.
ShowRows == 5

\* The number of clusters run_segmentation_pipeline is called with.
MaxK == 3

\* The silhouette scores the evaluator may return, in hundredths.
Scores == {35, 72}

NoArtifact == [written |-> FALSE]

Frame(columns, rows, k) ==
    [at |-> "run_spark_job_async", columns |-> columns, rows |-> rows,
     k |-> k,
     log |-> <<StatusData(1, "queued", 0, <<"Job queued for processing">>)>>,
     row_count |-> 0, error |-> <<>>, features |-> <<>>, cluster |-> <<>>, numCenters |-> 0,
     silhouette_score |-> 0, profiles |-> NoArtifact,
     chart |-> NoArtifact, segments |-> NoArtifact]

\* log_progress / update_job_status of the followed job.
Logged(d, stage, progress, message) ==
    [d EXCEPT !.log = Append(@, StatusData(1, stage, progress, message))]

\* An exception with text `message` leaves the stage function.
Raised(d, message) == [d EXCEPT !.at = "except", !.error = message]

HasNull(row) == \E c \in numeric_cols : IsNull(row[c])

\* run_spark_job_async, line 75.
run_spark_job_async_frame(d) ==
    [Logged(d, "initializing", 5, <<"Starting job...">>)
        EXCEPT !.at = "load_data"]

\* Stage 1: the file exists (run_job checked it) and is read.
load_data_frame(d) ==
    [Logged(Logged(d, "loading", 10, <<"Loading CSV file">>),
            "loading", 20, <<"Loaded ", "row_count", " records">>)
        EXCEPT !.row_count = Len(d.rows), !.at = "preprocess_data"]

\* preprocess_data: the rows are dropped before the cast.
preprocess_data_frame(d) ==
    LET d1 == Logged(d, "preprocessing", 25,
                     <<"Handling missing values and outliers">>)
        missing == validate_required_columns(d.columns)
    IN  IF missing # <<>>
        THEN Raised(d1, MissingText(missing))
        ELSE [Logged(d1, "preprocessing", 30, <<"Removing outliers">>)
                EXCEPT !.columns = normalize_dataframe(d.columns),
                       !.rows = preprocess_rows(d.rows),
                       !.at = "feature_engineering"]

\* (col('age') / 10).cast('int') * 10
age_group(row) ==
    IF IsNull(row.age) THEN Null
    ELSE [t |-> "num", v |-> 2 * (TruncDiv(row.age.v, 20) * 10)]

\* A quotient num / den of two columns; null when an operand is null or
\* the denominator is zero.
Quotient(num, den) ==
    IF IsNull(num) \/ IsNull(den) \/ den.v = 0
    THEN [null |-> TRUE, num |-> 0, den |-> 0]
    ELSE [null |-> FALSE, num |-> num.v, den |-> den.v]

\* col + 1
PlusOne(c) == IF IsNull(c) THEN Null ELSE [t |-> "num", v |-> c.v + 2]

\* feature_engineering: the three derived columns of every row.
feature_engineering_rows(rows) ==
    [i \in 1..Len(rows) |->
        [age_group |-> age_group(rows[i]),
         rf_ratio |-> Quotient(rows[i].frequency, PlusOne(rows[i].recency)),
         spend_per_purchase |->
             Quotient(rows[i].spend, PlusOne(rows[i].frequency))]]

feature_engineering_frame(d) ==
    [Logged(Logged(d, "feature_engineering", 40,
                   <<"Starting feature engineering">>),
            "feature_engineering", 50, <<"Features engineered">>)
        EXCEPT !.features = feature_engineering_rows(d.rows),
               !.at = "create_feature_vector"]

\* create_feature_vector: the assembler (handleInvalid = 'error') raises
\* on a null in age, spend, recency or frequency of a row that show(5)
\* evaluates.
create_feature_vector_frame(d) ==
    LET d1 == Logged(d, "vectorization", 55,
                     <<"Assembling features into vectors">>)
    IN  IF \E i \in 1..Len(d.rows) : i <= ShowRows + 1 /\ HasNull(d.rows[i])
        THEN Raised(d1, <<"Encountered null while assembling a row">>)
        ELSE [Logged(d1, "vectorization", 60, <<"Feature vector created">>)
                EXCEPT !.at = "scale_features"]

\* scale_features: fit evaluates every row, so the assembler raises on a
\* null that show(5) did not reach.  The summary of an empty table has no
\* mean: the fit may raise.
scale_features_frames(d) ==
    LET d1 == Logged(d, "scaling", 65, <<"Scaling features">>)
        ok == [Logged(d1, "scaling", 70, <<"Features scaled">>)
                 EXCEPT !.at = "perform_clustering"]
    IN  IF \E i \in 1..Len(d.rows) : HasNull(d.rows[i])
        THEN {Raised(d1, <<"Encountered null while assembling a row">>)}
        ELSE IF Len(d.rows) = 0
        THEN {Raised(d1, <<"Nothing has been added to this summarizer">>), ok}
        ELSE {ok}

\* The point of a row: the four assembled columns.
Point(row) == <<row.age.v, row.spend.v, row.recency.v, row.frequency.v>>
DistinctPoints(rows) == Cardinality({Point(rows[i]) : i \in 1..Len(rows)})
Min(a, b) == IF a <= b THEN a ELSE b

\* KMeans(k).fit and transform: at most min(k, distinct points) centers,
\* every row gets the id of a center, equal points get the same id.
Assignments(rows, k) ==
    {a \in [1..Len(rows) -> 0..(Min(k, DistinctPoints(rows)) - 1)] :
        \A i, j \in 1..Len(rows) :
            Point(rows[i]) = Point(rows[j]) => a[i] = a[j]}

\* perform_clustering.  KMeans rejects k <= 1 and an empty table.  The
\* evaluator is handed the model, not the transformed table (line 220):
\* what evaluate does with it is outside its contract, it raises or it
\* returns a score; the silhouette of a single cluster raises.
perform_clustering_frames(d) ==
    LET d1 == Logged(d, "clustering", 75, <<"Running KMeans with k=", "k">>)
    IN  IF d.k <= 1
        THEN {Raised(d1, <<"KMeans parameter k is invalid">>)}
        ELSE IF Len(d.rows) = 0
        THEN {Raised(d1, <<"Job aborted due to stage failure">>)}
        ELSE {Raised(d1, <<"'KMeansModel' object has no attribute '_jdf'">>)}
             \cup
             UNION {
               IF Cardinality({a[i] : i \in 1..Len(d.rows)}) = 1
               THEN {Raised(d1,
                       <<"Number of clusters must be greater than one">>)}
               ELSE {[Logged(d1, "clustering", 85,
                             <<"KMeans complete. Silhouette Score: ",
                               "score">>)
                        EXCEPT !.cluster = a,
                               !.numCenters =
                                   Min(d.k, DistinctPoints(d.rows)),
                               !.silhouette_score = s,
                               !.at = "generate_segment_profiles"]
                     : s \in Scores}
               : a \in Assignments(d.rows, d.k)}

\* The silhouetteScore literal of the profile artifact, in hundredths.
PlaceholderScore == 72

\* The thresholds of get_cluster_description.
PremiumSpend == 1500
RegularSpend == 900
LuxuryAge == 55
BudgetFrequency == 3

\* avg(column) of a set of rows: the sum of the values and their number.
RECURSIVE SumOver(_, _, _)
SumOver(rows, c, idx) ==
    IF idx = {} THEN 0
    ELSE LET i == CHOOSE x \in idx : TRUE
         IN  rows[i][c].v + SumOver(rows, c, idx \ {i})

Avg(rows, c, idx) == [sum |-> SumOver(rows, c, idx), n |-> Cardinality(idx)]

\* mean > bound and mean < bound, the values being kept in halves.
Above(mean, bound) == mean.sum > 2 * bound * mean.n
Below(mean, bound) == mean.sum < 2 * bound * mean.n

\* get_cluster_description with the thresholds on the higher side.
get_cluster_description_inclusive(row) ==
    IF ~Below(row.avg_spend, PremiumSpend)
    THEN IF ~Below(row.avg_age, LuxuryAge)
         THEN "Luxury Segment"
         ELSE "Premium Customers"
    ELSE IF ~Below(row.avg_spend, RegularSpend)
    THEN "Regular Shoppers"
    ELSE IF ~Above(row.avg_frequency, BudgetFrequency)
    THEN "Budget Conscious"
    ELSE "Emerging Customers"

get_cluster_description(row) ==
    IF Above(row.avg_spend, PremiumSpend)
    THEN IF Above(row.avg_age, LuxuryAge)
         THEN "Luxury Segment"
         ELSE "Premium Customers"
    ELSE IF Above(row.avg_spend, RegularSpend)
    THEN "Regular Shoppers"
    ELSE IF Below(row.avg_frequency, BudgetFrequency)
    THEN "Budget Conscious"
    ELSE "Emerging Customers"

\* The rows of cluster c.
Members(d, c) == {i \in 1..Len(d.rows) : d.cluster[i] = c}
ClusterIds(d) == {d.cluster[i] : i \in 1..Len(d.rows)}

\* One row of groupBy('cluster').agg(...).
cluster_stats_row(d, c) ==
    [cluster |-> c,
     size |-> Cardinality(Members(d, c)),
     avg_age |-> Avg(d.rows, "age", Members(d, c)),
     avg_spend |-> Avg(d.rows, "spend", Members(d, c)),
     avg_recency |-> Avg(d.rows, "recency", Members(d, c)),
     avg_frequency |-> Avg(d.rows, "frequency", Members(d, c)),
     min_spend |-> CHOOSE v \in {d.rows[i].spend.v : i \in Members(d, c)} :
                     \A i \in Members(d, c) : v <= d.rows[i].spend.v,
     max_spend |-> CHOOSE v \in {d.rows[i].spend.v : i \in Members(d, c)} :
                     \A i \in Members(d, c) : v >= d.rows[i].spend.v]

\* cluster_info of a row; the means are kept exact, their rounding for
\* display is left out.
cluster_info(row) ==
    [id |-> row.cluster, size |-> row.size,
     avg_age |-> row.avg_age, avg_spend |-> row.avg_spend,
     avg_recency |-> row.avg_recency, avg_frequency |-> row.avg_frequency,
     min_spend |-> row.min_spend, max_spend |-> row.max_spend,
     description |-> get_cluster_description(row)]

\* The orders in which collect() may return the groups.
CollectOrders(ids) ==
    {s \in [1..Cardinality(ids) -> ids] :
        \A i, j \in 1..Cardinality(ids) : i # j => s[i] # s[j]}

\* The sort without reverse=True: smaller sizes first.
InsertBySize_ascending(sorted, x) ==
    LET before == {i \in 1..Len(sorted) : sorted[i].size <= x.size}
        n == Cardinality(before)
    IN  SubSeq(sorted, 1, n) \o <<x>> \o SubSeq(sorted, n + 1, Len(sorted))

\* list.sort(key=size, reverse=True): a stable sort, larger sizes first.
InsertBySize(sorted, x) ==
    LET before == {i \in 1..Len(sorted) : sorted[i].size >= x.size}
        n == Cardinality(before)
    IN  SubSeq(sorted, 1, n) \o <<x>> \o SubSeq(sorted, n + 1, Len(sorted))

RECURSIVE sort_by_size(_)
sort_by_size(clusters) ==
    IF clusters = <<>> THEN <<>>
    ELSE InsertBySize(sort_by_size(SubSeq(clusters, 1, Len(clusters) - 1)),
                      clusters[Len(clusters)])

\* The loop over cluster_stats: total_customers += size.
RECURSIVE Accumulate(_, _)
Accumulate(clusters, total) ==
    IF clusters = <<>> THEN total
    ELSE Accumulate(Tail(clusters), total + clusters[1].size)

\* total_customers counting the clusters instead of their customers.
total_customers_count(clusters) == Len(clusters)

\* total_customers after the loop, starting from 0.
total_customers(clusters) == Accumulate(clusters, 0)

\* The segment_profiles dictionary for one order of cluster_stats.
segment_profiles(d, order) ==
    LET clusters == [i \in 1..Len(order) |->
                        cluster_info(cluster_stats_row(d, order[i]))]
    IN  [written |-> TRUE,
         numClusters |-> Len(clusters),
         totalCustomers |-> total_customers(clusters),
         clusters |-> sort_by_size(clusters),
         silhouetteScore |-> PlaceholderScore]

generate_segment_profiles_frames(d) ==
    {[Logged(d, "profiling", 90, <<"Generating segment profiles">>)
        EXCEPT !.profiles = segment_profiles(d, order),
               !.at = "generate_chart_data"]
     : order \in CollectOrders(ClusterIds(d))}

\* The age brackets of the line chart.
age_ranges ==
    << <<20, 30>>, <<30, 40>>, <<40, 50>>, <<50, 60>>, <<60, 70>>,
       <<70, 80>> >>

\* The filter with the upper bound of the bracket included.
InRange_inclusive(d, range) ==
    {i \in 1..Len(d.rows) :
        d.rows[i].age.v >= 2 * range[1] /\ d.rows[i].age.v <= 2 * range[2]}

\* filter((age >= start) & (age < end))
InRange(d, range) ==
    {i \in 1..Len(d.rows) :
        d.rows[i].age.v >= 2 * range[1] /\ d.rows[i].age.v < 2 * range[2]}

\* line_data: one point per bracket whose mean spend is not None.
line_data(d) ==
    LET points == [r \in 1..Len(age_ranges) |->
                      [x |-> age_ranges[r],
                       y |-> Avg(d.rows, "spend", InRange(d, age_ranges[r]))]]
    IN  SelectSeq(points, LAMBDA p : p.y.n > 0)

\* generate_chart_data: the cluster counts and the line chart (the
\* scatter sample and the radar data repeat rows and means).
generate_chart_data_frame(d) ==
    [Logged(d, "visualization", 95, <<"Generating visualization data">>)
        EXCEPT !.chart =
                   [written |-> TRUE,
                    clusterCounts |->
                        [c \in ClusterIds(d) |-> Cardinality(Members(d, c))],
                    lineChart |-> line_data(d)],
               !.at = "save_segmented_customers"]

\* save_segmented_customers: the selected columns of every row.
save_segmented_customers_frame(d) ==
    [Logged(d, "saving", 98, <<"Saving segmented customers">>)
        EXCEPT !.segments =
                   [written |-> TRUE,
                    rows |-> [i \in 1..Len(d.rows) |->
                                 [age |-> d.rows[i].age,
                                  spend |-> d.rows[i].spend,
                                  recency |-> d.rows[i].recency,
                                  frequency |-> d.rows[i].frequency,
                                  cluster |-> d.cluster[i]]]],
               !.at = "completed"]

\* run_segmentation_pipeline, lines 494-509.
run_segmentation_pipeline_completed_frame(d) ==
    [Logged(d, "completed", 100, <<"Segmentation completed successfully">>)
        EXCEPT !.at = "returned"]

\* run_segmentation_pipeline, lines 511-521: the exception is logged and
\* not raised again.
run_segmentation_pipeline_except_frame(d) ==
    [Logged(d, "error", 0, <<"Error: ">> \o d.error)
        EXCEPT !.at = "returned"]

\* run_spark_job_async, line 87.
run_spark_job_async_completed_frame(d) ==
    [Logged(d, "completed", 100, <<"Job completed successfully">>)
        EXCEPT !.at = "done"]

----------------------------------------------------------------------------
(* The tables the run is followed with.                                    *)

\* Largest number of rows of a table.
MaxRows == 3

\* The header as the file spells it: capitals and surrounding blanks.
Spelled(c) ==
    CASE c = "age" -> "Age"
      [] c = "spend" -> "SPEND"
      [] c = "recency" -> "Recency"
      [] c = "frequency" -> "FREQUENCY"
      [] OTHER -> c

Header(present, spelled) ==
    {Column(IF spelled THEN Spelled(c) ELSE c, spelled) : c \in present}
        \cup {Column(IF spelled THEN "CustomerID" ELSE "customerid", FALSE)}

Row(a, s, r, f) ==
    [age |-> Num(a), spend |-> Num(s), recency |-> Num(r),
     frequency |-> Num(f)]

\* Three customers with different values in every column.
Customers == <<Row(30, 1000, 5, 4), Row(60, 2000, 1, 2), Row(45, 500, 9, 1)>>

Table(columns, rows, k) == [columns |-> columns, rows |-> rows, k |-> k]

\* Every subset of the required columns, as spelled or normalized.
HeaderTables ==
    {Table(Header(present, spelled), SubSeq(Customers, 1, 2), 2) :
        present \in SUBSET numeric_cols, spelled \in BOOLEAN}

\* The cells of a CSV column: empty, no number, negative, zero, positive.
Cells == {Null, Text, Num(-1), Num(0), Num(3)}

\* One column of the customers replaced by arbitrary cells.
CellTables ==
    {Table(Header(numeric_cols, FALSE),
           [i \in 1..Len(cells) |->
               [Customers[((i - 1) % Len(Customers)) + 1]
                   EXCEPT ![c] = cells[i]]],
           2) :
        c \in numeric_cols,
        cells \in UNION {[1..n -> Cells] : n \in 1..MaxRows}}

\* Up to MaxRows customers, repeated or not, and every k up to MaxK.
ClusterTables ==
    {Table(Header(numeric_cols, FALSE), rows, k) :
        rows \in UNION {[1..n -> {Customers[i] : i \in 1..Len(Customers)}] :
                           n \in 0..MaxRows},
        k \in 1..MaxK}

\* Customers on and next to the thresholds of get_cluster_description.
ThresholdRows ==
    {Row(a, s, 5, f) : a \in {55, 56}, s \in {900, 901, 1500, 1501},
                       f \in {2, 3}}

ThresholdTables ==
    {Table(Header(numeric_cols, FALSE), <<p, q, Customers[3]>>, 2) :
        p \in ThresholdRows, q \in ThresholdRows}

\* Customers on and next to the bounds of the first and the last age
\* bracket, with a customer of age 45.
BracketAges == {19, 20, 29, 30, 79, 80}

BracketTables ==
    {Table(Header(numeric_cols, FALSE),
           <<Row(a, 1000, 5, 4), Row(b, 2000, 1, 2), Customers[3]>>, 2) :
        a \in BracketAges, b \in BracketAges}

Tables ==
    HeaderTables \cup CellTables \cup ClusterTables \cup ThresholdTables
        \cup BracketTables

----------------------------------------------------------------------------
(* The run of one job on a table.                                          *)

jobVars == <<pc, nextJob, statusFile, stale, jobs, writes, exc,
             activeSession, sessionSeq, spark, results, orphan, produced,
             resp>>

\* run_job accepted the file and wrote the queued record.
FrameInit ==
    /\ InitJobs
    /\ df \in {Frame(t.columns, t.rows, t.k) : t \in Tables}

\* A stage function with one outcome.
FrameStep(at, frame) ==
    /\ df.at = at
    /\ df' = frame
    /\ UNCHANGED jobVars

\* A stage function with an outcome that Spark chooses.
FrameChoice(at, frames) ==
    /\ df.at = at
    /\ df' \in frames
    /\ UNCHANGED jobVars

FrameNext ==
    \/ FrameStep("run_spark_job_async", run_spark_job_async_frame(df))
    \/ FrameStep("load_data", load_data_frame(df))
    \/ FrameStep("preprocess_data", preprocess_data_frame(df))
    \/ FrameStep("feature_engineering", feature_engineering_frame(df))
    \/ FrameStep("create_feature_vector", create_feature_vector_frame(df))
    \/ FrameChoice("scale_features", scale_features_frames(df))
    \/ FrameChoice("perform_clustering", perform_clustering_frames(df))
    \/ FrameChoice("generate_segment_profiles",
                   generate_segment_profiles_frames(df))
    \/ FrameStep("generate_chart_data", generate_chart_data_frame(df))
    \/ FrameStep("save_segmented_customers",
                 save_segmented_customers_frame(df))
    \/ FrameStep("completed", run_segmentation_pipeline_completed_frame(df))
    \/ FrameStep("except", run_segmentation_pipeline_except_frame(df))
    \/ FrameStep("returned", run_spark_job_async_completed_frame(df))

FrameSpec == FrameInit /\ [][FrameNext]_vars

----------------------------------------------------------------------------
(* Properties.                                                             *)

Last(w) == w[Len(w)]
Terminal(stage) == stage \in {"completed", "error"}
Finished(j) == At(j, "done", "")

\* The record a reader finds in the status file of job j, if any.
HasRecord(j) == JsonLoad(statusFile[j]).ok
Record(j) == JsonLoad(statusFile[j]).doc

\* The stages and progress values of section 4.7, in order.
Contract ==
    << <<"queued", 0>>, <<"initializing", 5>>,
       <<"loading", 10>>, <<"loading", 20>>,
       <<"preprocessing", 25>>, <<"preprocessing", 30>>,
       <<"feature_engineering", 40>>, <<"feature_engineering", 50>>,
       <<"vectorization", 55>>, <<"vectorization", 60>>,
       <<"scaling", 65>>, <<"scaling", 70>>,
       <<"clustering", 75>>, <<"clustering", 85>>,
       <<"profiling", 90>>, <<"visualization", 95>>, <<"saving", 98>>,
       <<"completed", 100>> >>

StageProgress(w) == [i \in 1..Len(w) |-> <<w[i].stage, w[i].progress>>]
IsPrefix(s, t) == Len(s) <= Len(t) /\ s = SubSeq(t, 1, Len(s))

\* No record among the first k of w is terminal.
NoTerminalUpTo(w, k) == \A m \in 1..k : ~Terminal(w[m].stage)

\* C1: once an `error` record has been written for a job, no later status
\* write for that job replaces it: an `error` record is the last record
\* written for its job.
C1_ErrorIsTerminal ==
    \A j \in Jobs : \A i \in 1..Len(writes[j]) :
        writes[j][i].stage = "error" => i = Len(writes[j])

\* C2: whenever the status record of a job shows `completed`, the job ran
\* profiling, visualization and saving without failure and has written the
\* three artifacts.
C2_CompletedHasArtifacts ==
    \A j \in Jobs :
        (HasRecord(j) /\ Record(j).stage = "completed")
            => (exc[j] = "none" /\ produced[j] = Artifacts)

\* C3: as long as no stage of a job has failed, the records written for it
\* are a prefix of the contractual sequence, `completed`(100) being written
\* by the pipeline and once more by run_spark_job_async; a finished job has
\* written the whole sequence.
C3_ContractualTraversal ==
    \A j \in Jobs :
        exc[j] = "none" =>
            LET expected == Append(Contract, <<"completed", 100>>)
                seen == StageProgress(writes[j])
            IN  /\ IsPrefix(seen, expected)
                /\ Finished(j) => seen = expected

C3_Witness == \E j \in Jobs : Finished(j) /\ exc[j] = "none"

\* C4: the progress values of the records written for a job before its
\* first terminal record never decrease, also when a stage fails.
C4_ProgressMonotone ==
    \A j \in Jobs : \A k \in 2..Len(writes[j]) :
        NoTerminalUpTo(writes[j], k)
            => writes[j][k - 1].progress <= writes[j][k].progress

C4_Witness ==
    \E j \in Jobs :
        /\ exc[j] # "none"
        /\ Len(writes[j]) >= 6
        /\ Last(writes[j]).stage = "error"
        /\ NoTerminalUpTo(writes[j], Len(writes[j]) - 1)

\* C5: a job that hit a fatal condition has performed exactly one status
\* write with a terminal stage when it is finished.
C5_OneTerminalWrite ==
    \A j \in Jobs :
        (Finished(j) /\ exc[j] # "none")
            => Cardinality({i \in 1..Len(writes[j]) :
                              Terminal(writes[j][i].stage)}) = 1

\* C6: every job whose `queued` record was written and that has not yet
\* written a terminal record eventually has a status record of stage
\* `completed` or `error`.
C6_EventuallyTerminal ==
    \A j \in Jobs :
        (Len(writes[j]) >= 1 /\ NoTerminalUpTo(writes[j], Len(writes[j])))
            ~> (HasRecord(j) /\ Terminal(Record(j).stage))

C6_Witness ==
    \E j \in Jobs :
        /\ HasRecord(j) /\ Record(j).stage = "error"
        /\ ~Finished(j)

\* C7: after a stage of a job has failed, the next status write for the job
\* is `error` with progress 0 and a message that contains the text of the
\* exception.
C7_FailureWritesError ==
    [][\A j \in Jobs :
          (exc[j] # "none" /\ pc[j][1] = "except"
             /\ Len(writes'[j]) = Len(writes[j]) + 1)
          => LET r == Last(writes'[j])
             IN  /\ r.stage = "error"
                 /\ r.progress = 0
                 /\ \E i \in 1..Len(r.message) :
                       r.message[i] = ExcText(exc[j])]_vars

C7_Witness ==
    \E j \in Jobs :
        /\ exc[j] = "ValueError"
        /\ Len(writes[j]) >= 1
        /\ Last(writes[j]).stage = "error"
        /\ At(j, "run_spark_job_async", "returned")

\* C8: a job_status request that runs while a status write for the same
\* job is in progress answers with a complete record and never fails.
C8_ReadNeverFails ==
    (resp.handler = "job_status" /\ resp.code # 404)
        => (resp.code = 200 /\ resp.body \in {writes[j][i] :
                j \in {resp.job_id}, i \in 1..Len(writes[resp.job_id])})

\* C9: once a result artifact has been written, no later action modifies
\* or replaces it.
C9_ArtifactsImmutable ==
    [][\A a \in Artifacts :
          Len(results[a].data) = 1 => results'[a] = results[a]]_vars

\* C10: after all concurrently running jobs have finished, the artifacts
\* in the results directory were all produced by one and the same job.
C10_ArtifactsOfOneJob ==
    (\A j \in Jobs : Finished(j))
        => \A a, b \in Artifacts :
              (Len(results[a].data) = 1 /\ Len(results[b].data) = 1)
                 => results[a].data[1].producer = results[b].data[1].producer

\* C11: the status record of a job (its file and its entry in `jobs`) is
\* changed only by a step of that job's own handler or thread, so a write
\* for one job leaves the record of every other job unchanged, and a
\* job_status request changes no status record.
C11_OwnRecordOnly ==
    [][/\ \A b \in Jobs :
             (statusFile'[b] # statusFile[b] \/ jobs'[b] # jobs[b])
                => pc'[b] # pc[b]
       /\ resp' # resp => (statusFile' = statusFile /\ jobs' = jobs)]_vars

C11_Witness ==
    /\ \A j \in Jobs : Len(writes[j]) >= 3 /\ ~Finished(j)
    /\ resp.handler = "job_status" /\ resp.code = 200

----------------------------------------------------------------------------
(* Properties of the run of one job on a table (FrameSpec).                *)

FrameStages == {df.log[i].stage : i \in 1..Len(df.log)}
FrameReturned == df.at \in {"returned", "done"}
NoFrameArtifact ==
    ~df.profiles.written /\ ~df.chart.written /\ ~df.segments.written

\* The stages that follow preprocessing.
LaterStages ==
    {"feature_engineering", "vectorization", "scaling", "clustering",
     "profiling", "visualization", "saving", "completed"}

\* C12: when a required column is absent from the normalized header, the
\* job writes an error record whose message names exactly the missing
\* columns, writes no record of a stage after preprocessing and writes no
\* result artifact.
C12_MissingColumnsStop ==
    LET missing == validate_required_columns(df.columns)
    IN  missing # <<>> =>
          /\ FrameReturned =>
               \E i \in 1..Len(df.log) :
                   df.log[i] = StatusData(1, "error", 0,
                       <<"Error: ", "Missing required columns: ">>
                           \o missing)
          /\ FrameStages \cap LaterStages = {}
          /\ NoFrameArtifact

\* The clustering stage has started.
ClusteringStarted == "clustering" \in FrameStages

RECURSIVE SumOfSizes(_)
SumOfSizes(clusters) ==
    IF Len(clusters) = 0 THEN 0
    ELSE clusters[Len(clusters)].size
            + SumOfSizes(SubSeq(clusters, 1, Len(clusters) - 1))

\* C15: in the profile artifact the sizes of the clusters add up to
\* totalCustomers, which is the number of customers that were assigned a
\* cluster, also when fewer than k clusters have a customer.
C15_SizesAddUp ==
    df.profiles.written =>
        /\ SumOfSizes(df.profiles.clusters) = df.profiles.totalCustomers
        /\ df.profiles.totalCustomers = Len(df.cluster)

C15_Witness ==
    /\ df.profiles.written
    /\ df.profiles.numClusters < df.k
    /\ df.profiles.totalCustomers = MaxRows

\* C16: the silhouetteScore of the profile artifact is the silhouette score
\* that the clustering stage computed.
C16_ScoreReported ==
    df.profiles.written => df.profiles.silhouetteScore = df.silhouette_score

\* The label of section 4.6 for the means of a cluster.
LabelRule(c) ==
    CASE Above(c.avg_spend, 1500) /\ Above(c.avg_age, 55) -> "Luxury Segment"
      [] Above(c.avg_spend, 1500) /\ ~Above(c.avg_age, 55)
            -> "Premium Customers"
      [] ~Above(c.avg_spend, 1500) /\ Above(c.avg_spend, 900)
            -> "Regular Shoppers"
      [] ~Above(c.avg_spend, 900) /\ Below(c.avg_frequency, 3)
            -> "Budget Conscious"
      [] ~Above(c.avg_spend, 900) /\ ~Below(c.avg_frequency, 3)
            -> "Emerging Customers"

\* C17: every cluster of the profile artifact carries the label of the
\* priority rule, a mean of exactly 1500, 900, 55 or 3 falling on the
\* lower-priority side.
C17_LabelRule ==
    df.profiles.written =>
        \A i \in 1..Len(df.profiles.clusters) :
            df.profiles.clusters[i].description
                = LabelRule(df.profiles.clusters[i])

\* A cluster on each of the four thresholds.
OnThreshold(c, column, bound) == c[column].sum = 2 * bound * c[column].n

C17_Witness ==
    /\ df.profiles.written
    /\ \E i \in 1..Len(df.profiles.clusters) :
          LET c == df.profiles.clusters[i]
          IN  /\ OnThreshold(c, "avg_spend", 900)
              /\ OnThreshold(c, "avg_frequency", 3)
              /\ c.description = "Emerging Customers"

PreprocessDone == df.at = "feature_engineering"

\* C18: every row that leaves preprocess_data has age, spend, recency and
\* frequency >= 0.
C18_NonNegative ==
    PreprocessDone =>
        \A i \in 1..Len(df.rows) : \A c \in numeric_cols :
            IsNum(df.rows[i][c]) => df.rows[i][c].v >= 0

\* C19: for every row that reaches feature_engineering the denominators
\* recency + 1 and frequency + 1 are not zero.
C19_DenominatorsNonZero ==
    PreprocessDone =>
        \A i \in 1..Len(df.rows) : \A c \in {"recency", "frequency"} :
            IsNum(df.rows[i][c]) => PlusOne(df.rows[i][c]).v # 0

\* C20: no row that leaves preprocess_data has a null or unparseable value
\* in age, spend, recency or frequency.
C20_NoNullLeaves ==
    PreprocessDone =>
        \A i \in 1..Len(df.rows) : \A c \in numeric_cols :
            IsNum(df.rows[i][c])

----------------------------------------------------------------------------
(* Properties of submission, housekeeping and the shared session.          *)

Queued(j) == StatusData(j, "queued", 0, <<"Job queued for processing">>)

\* C21: when run_job returns a job id the status file of the job holds the
\* record queued(0); the first record ever written for a job is queued(0),
\* and no later write for the job is a `queued` record.
C21_QueuedFirst ==
    [][\A j \in Jobs :
          /\ (At(j, "run_job", "queued") /\ pc'[j] # pc[j])
                => (HasRecord(j) /\ Record(j) = Queued(j))'
          /\ Len(writes'[j]) >= 1 => writes'[j][1] = Queued(j)
          /\ \A i \in 2..Len(writes'[j]) : writes'[j][i].stage # "queued"]_vars

C21_Witness ==
    \E j \in Jobs :
        /\ Len(writes[j]) >= 2
        /\ writes[j][1] = Queued(j)
        /\ writes[j][2].stage = "initializing"

\* C22: in the profile artifact the clusters are listed by non-increasing
\* size: every cluster is at least as large as the one listed after it.
C22_SortedBySize ==
    df.profiles.written =>
        \A i \in 1..(Len(df.profiles.clusters) - 1) :
            df.profiles.clusters[i].size >= df.profiles.clusters[i + 1].size

C22_Witness ==
    /\ df.profiles.written
    /\ Len(df.profiles.clusters) >= 2
    /\ df.profiles.clusters[1].size > df.profiles.clusters[2].size
    /\ df.profiles.clusters[1].id > df.profiles.clusters[2].id

\* The mean spend of the customers with start <= age < end.
SpendOfAges(start, end) ==
    Avg(df.rows, "spend",
        {i \in 1..Len(df.rows) :
            df.rows[i].age.v >= 2 * start /\ df.rows[i].age.v < 2 * end})

\* C23: the age-bracket series of the chart artifact has, in ascending
\* order, one entry for each of the brackets [20,30) ... [70,80) that holds
\* a customer, the entry being the mean spend of the customers of the
\* bracket; an empty bracket has no entry and a customer younger than 20
\* or of age 80 and above is in no entry.
C23_AgeBrackets ==
    df.chart.written =>
        LET brackets == << <<20, 30>>, <<30, 40>>, <<40, 50>>, <<50, 60>>,
                           <<60, 70>>, <<70, 80>> >>
            occupied == SelectSeq(brackets,
                            LAMBDA b : SpendOfAges(b[1], b[2]).n > 0)
        IN  /\ Len(df.chart.lineChart) = Len(occupied)
            /\ \A n \in 1..Len(df.chart.lineChart) :
                  /\ df.chart.lineChart[n].x = occupied[n]
                  /\ df.chart.lineChart[n].y
                        = SpendOfAges(occupied[n][1], occupied[n][2])

C23_Witness ==
    /\ df.chart.written
    /\ \E i \in 1..Len(df.rows) : df.rows[i].age = Num(80)
    /\ \E i \in 1..Len(df.rows) : df.rows[i].age = Num(20)
    /\ Len(df.chart.lineChart) = 2

\* The failures of a job that its own input or the launch of Spark causes.
OwnFailures ==
    {"AnalysisException", "ValueError", "IllegalArgumentException",
     "SparkException", "AttributeError", "RuntimeError"}

\* C24: a job that does not fail on its own input ends with all three
\* artifacts written and without an error record, whatever another job
\* does meanwhile, also when the other job stops the Spark session.
C24_OutcomeIndependent ==
    \A j \in Jobs :
        (Finished(j) /\ exc[j] \notin OwnFailures)
            => /\ produced[j] = Artifacts
               /\ \A i \in 1..Len(writes[j]) : writes[j][i].stage # "error"

\* run_job has returned the id of the job and the job has not yet written
\* a `completed` or `error` record.
Running(j) ==
    /\ pc[j][1] \notin {"idle", "run_job", "done"}
    /\ NoTerminalUpTo(writes[j], Len(writes[j]))

\* C25: while a job is running its status file exists, and job_status does
\* not answer 404 for it.
C25_RecordKept ==
    [][/\ \A j \in Jobs : Running(j)' => statusFile'[j].exists
       /\ (resp' # resp /\ resp'.handler = "job_status" /\ resp'.code = 404)
             => ~Running(resp'.job_id)]_vars


\* C26: a request that run_job answers with 400 or 404 generates no job
\* id, writes no status record, starts no thread and leaves every status
\* record and every artifact as it was.
C26_RejectedCreatesNothing ==
    [][(resp' # resp /\ resp'.handler = "run_job" /\ resp'.code \in {400, 404})
          => UNCHANGED <<pc, nextJob, statusFile, jobs, writes, results,
                         produced>>]_vars

C26_Witness ==
    /\ resp.handler = "run_job"
    /\ resp.code = 404
    /\ \E j \in Jobs : HasRecord(j) /\ ~Finished(j)
    /\ results[PROFILES].exists

====
